---------------------------- MODULE Spec2Model ----------------------------
(***************************************************************************)
(* Merkle audit-proof verifier of artifact-signer (merkle_proof.py): the   *)
(* RFC 6962 inclusion and consistency verifiers, their tree-shape helpers  *)
(* and the hash primitive, as a state machine whose steps are calls of the *)
(* two entry points made against an append-only log.                       *)
(*                                                                         *)
(* Byte strings are terms of a collision-free hash model:                  *)
(*   <<0, d>>       H(0x00 || d), the leaf hash of leaf data d             *)
(*   <<1, l, r>>    H(0x01 || l || r), the node hash of l and r            *)
(*   <<2, n, k>>    the k-th byte string of n bytes that is no hash output *)
(*   <<3, bs>>      the hash of the blocks bs given to one hash object     *)
(* Hex strings are pairs <<c, b>>: the lower-case hex of b, its upper-case *)
(* hex, or a string of that length that is not hexadecimal.                *)
(*                                                                         *)
(* The commands of main.py (main with --consistency, inclusion, and the    *)
(* fetch helpers) are further steps, each taken with what its requests to  *)
(* the Rekor server come to.                                               *)
(*                                                                         *)
(* A second specification, SpecPar, runs verification calls of several     *)
(* threads on one Hasher, a call being the steps of its hash objects.      *)
(***************************************************************************)
EXTENDS Integers, Sequences, FiniteSets, TLC

VARIABLES log, op, arg, res, hasher, heap, thr

vars == <<log, op, arg, res, hasher, heap, thr>>

\* ------------------------------------------------------------ bounds
\* Largest number of leaves the log grows to.
MaxSize == 8
\* Largest tree size for which every proof over the pool is enumerated.
MaxForge == 4
\* Largest index and size the tree-shape helpers are called with directly.
MaxShape == 16
\* Longest proof root_from_inclusion_proof is called with directly.
MaxProofLen == 4
\* Threads that verify at the same time on one Hasher.
NThreads == 2
\* Leaves of the log the threads verify against.
ParLeaves == 3

\* ------------------------------------------------- python integers
\* x >> k and x << k on unbounded integers (floor division, as in Python).
Shr(x, k) == x \div (2 ^ k)

Shl(x, k) == x * (2 ^ k)

RECURSIVE Xor(_, _)
\* x ^ y on two's-complement integers of unbounded width.
Xor(x, y) ==
    IF x = 0 THEN y
    ELSE IF y = 0 THEN x
    ELSE IF x = -1 THEN (-1) - y
    ELSE IF y = -1 THEN (-1) - x
    ELSE 2 * Xor(x \div 2, y \div 2) + (((x % 2) + (y % 2)) % 2)

RECURSIVE And(_, _)
\* x & y on two's-complement integers of unbounded width.
And(x, y) ==
    IF x = 0 \/ y = 0 THEN 0
    ELSE IF x = -1 THEN y
    ELSE IF y = -1 THEN x
    ELSE 2 * And(x \div 2, y \div 2) + ((x % 2) * (y % 2))

Abs(x) == IF x < 0 THEN 0 - x ELSE x

RECURSIVE BitLenNat(_)
BitLenNat(x) == IF x = 0 THEN 0 ELSE 1 + BitLenNat(x \div 2)

\* int.bit_length(): the bits of the absolute value.
bit_length(x) == BitLenNat(Abs(x))

RECURSIVE PopNat(_)
PopNat(x) == IF x = 0 THEN 0 ELSE (x % 2) + PopNat(x \div 2)

\* bin(x).count("1"): the ones of the absolute value (bin(-5) is "-0b101").
bin_count1(x) == PopNat(Abs(x))

\* ------------------------------------------------- python sequences
Min(a, b) == IF a < b THEN a ELSE b

Max(a, b) == IF a > b THEN a ELSE b

\* The slice bound k of a list of n elements, as Python normalises it.
SliceBound(n, k) == IF k < 0 THEN Max(n + k, 0) ELSE Min(k, n)

\* s[:k]
SliceTo(s, k) == SubSeq(s, 1, SliceBound(Len(s), k))

\* s[k:]
SliceFrom(s, k) == SubSeq(s, SliceBound(Len(s), k) + 1, Len(s))

\* ------------------------------------------------------ byte strings
RFC6962_LEAF_HASH_PREFIX == 0

RFC6962_NODE_HASH_PREFIX == 1

\* Digest size of the default hash function, SHA-256.
Sha256DigestSize == 32

\* A byte string of n bytes that is no leaf or node hash (k tells such
\* strings apart).
Raw(n, k) == <<2, n, k>>

\* b"": also the value of a result field that holds nothing.
NoBytes == Raw(0, 0)

\* Hasher.size()
hasher_size == Sha256DigestSize

\* len(b)
ByteLen(b) == IF b[1] = 2 THEN b[2] ELSE hasher_size

\* Hasher.hash_leaf(leaf)
hash_leaf(leaf) == <<RFC6962_LEAF_HASH_PREFIX, leaf>>

\* hash_children with its two children exchanged.
hash_children_swapped(left, right) ==
    <<RFC6962_NODE_HASH_PREFIX, right, left>>

\* Hasher.hash_children(left, right)
hash_children(left, right) == <<RFC6962_NODE_HASH_PREFIX, left, right>>

\* -------------------------------------------------------- hex strings
HexLower == "lower"

HexUpper == "upper"

HexBad == "bad"

\* bytes.hex(): lower-case digits.
ToHex(b) == <<HexLower, b>>

ToHexUpper(b) == <<HexUpper, b>>

\* A string of the length of b's hex that is not hexadecimal.
BadHex(b) == <<HexBad, b>>

\* Whether bytes.fromhex(h) returns (it raises ValueError otherwise).
IsHex(h) == h[1] # HexBad

\* bytes.fromhex(h) of a hexadecimal string: the digits' case is dropped.
fromhex(h) == h[2]

AllHex(hs) == \A i \in 1..Len(hs) : IsHex(hs[i])

fromhex_all(hs) == [i \in 1..Len(hs) |-> fromhex(hs[i])]

\* -------------------------------------------------- tree-shape helpers
inner_proof_size_nominus(index, size) == bit_length(Xor(index, size))

\* inner_proof_size with the bits the two have in common.
inner_proof_size_and(index, size) == bit_length(And(index, size - 1))

\* inner_proof_size(index, size)
inner_proof_size(index, size) == bit_length(Xor(index, size - 1))

decomp_incl_proof_noshift(index, size) ==
    LET inner == inner_proof_size(index, size)
    IN  [inner |-> inner, border |-> bin_count1(index)]

\* decomp_incl_proof(index, size)
decomp_incl_proof(index, size) ==
    LET inner == inner_proof_size(index, size)
    IN  [inner |-> inner, border |-> bin_count1(Shr(index, inner))]

\* ------------------------------------------------------------ chaining
\* A chain's accumulator: the seed, and the hash_children calls made so far.
Acc(h, n) == [h |-> h, n |-> n]

RECURSIVE chain_inner_flipped(_, _, _)
\* chain_inner with the two sides of the bit test exchanged.
chain_inner_flipped(seed, proof, index) ==
    IF proof = <<>> THEN seed
    ELSE LET i == Len(proof) - 1
             s == chain_inner_flipped(seed, SubSeq(proof, 1, i), index)
             h == proof[i + 1]
         IN  IF And(Shr(index, i), 1) = 0
             THEN Acc(hash_children(h, s.h), s.n + 1)
             ELSE Acc(hash_children(s.h, h), s.n + 1)

RECURSIVE chain_inner(_, _, _)
\* chain_inner(hasher, seed, proof, index): proof[i] is joined on the right
\* when bit i of index is 0 and on the left when it is 1.
chain_inner(seed, proof, index) ==
    IF proof = <<>> THEN seed
    ELSE LET i == Len(proof) - 1
             s == chain_inner(seed, SubSeq(proof, 1, i), index)
             h == proof[i + 1]
         IN  IF And(Shr(index, i), 1) = 0
             THEN Acc(hash_children(s.h, h), s.n + 1)
             ELSE Acc(hash_children(h, s.h), s.n + 1)

RECURSIVE chain_inner_right_all(_, _, _)
\* chain_inner_right joining on every bit, as chain_inner does.
chain_inner_right_all(seed, proof, index) ==
    IF proof = <<>> THEN seed
    ELSE LET i == Len(proof) - 1
             s == chain_inner_right_all(seed, SubSeq(proof, 1, i), index)
             h == proof[i + 1]
         IN  IF And(Shr(index, i), 1) = 1
             THEN Acc(hash_children(h, s.h), s.n + 1)
             ELSE Acc(hash_children(s.h, h), s.n + 1)

RECURSIVE chain_inner_right(_, _, _)
\* chain_inner_right(hasher, seed, proof, index): only the proof[i] of the
\* bits of index that are 1 are joined, on the left.
chain_inner_right(seed, proof, index) ==
    IF proof = <<>> THEN seed
    ELSE LET i == Len(proof) - 1
             s == chain_inner_right(seed, SubSeq(proof, 1, i), index)
             h == proof[i + 1]
         IN  IF And(Shr(index, i), 1) = 1
             THEN Acc(hash_children(h, s.h), s.n + 1)
             ELSE s

RECURSIVE chain_border_right(_, _)
\* chain_border_right(hasher, seed, proof): every element is joined on the left.
chain_border_right(seed, proof) ==
    IF proof = <<>> THEN seed
    ELSE LET i == Len(proof) - 1
             s == chain_border_right(seed, SubSeq(proof, 1, i))
         IN  Acc(hash_children(proof[i + 1], s.h), s.n + 1)

\* ------------------------------------------------------------- results
\* What a call ends in: "pass" when it returns, else the failure raised; at is
\* the source line of the raise (0 for a return), calls the hash_children
\* calls made, matches the verify_match calls made, calc and expected the two
\* values of the last verify_match.
Outcome(kind, at, calls, matches, calc, expected) ==
    [kind |-> kind, at |-> at, calls |-> calls, matches |-> matches,
     calc |-> calc, expected |-> expected]

Raise(kind, at) == Outcome(kind, at, 0, 0, NoBytes, NoBytes)

\* verify_match comparing the lengths only.
verify_match_length(calculated, expected) ==
    ByteLen(calculated) = ByteLen(expected)

\* verify_match(calculated, expected): whether it returns; it raises
\* RootMismatchError(expected, calculated) otherwise.
verify_match(calculated, expected) == calculated = expected

\* ----------------------------------------------------------- inclusion
\* root_from_inclusion_proof checking the leaf hash before the index.
root_from_inclusion_proof_leaf_first(index, size, leaf_hash, proof) ==
    IF ByteLen(leaf_hash) # hasher_size
    THEN Raise("InvalidLeafHashSize", 323)
    ELSE IF index >= size THEN Raise("IndexOutOfRange", 320)
    ELSE LET d == decomp_incl_proof(index, size)
         IN  IF Len(proof) # d.inner + d.border
             THEN Raise("WrongProofSize", 329)
             ELSE LET r1 == chain_inner(Acc(leaf_hash, 0),
                                        SliceTo(proof, d.inner), index)
                      r2 == chain_border_right(r1, SliceFrom(proof, d.inner))
                  IN  Outcome("pass", 0, r2.n, 0, r2.h, NoBytes)

\* root_from_inclusion_proof(hasher, index, size, leaf_hash, proof): the
\* outcome is "pass" with calc the root computed, or the failure raised.
root_from_inclusion_proof(index, size, leaf_hash, proof) ==
    IF index >= size THEN Raise("IndexOutOfRange", 320)
    ELSE IF ByteLen(leaf_hash) # hasher_size
    THEN Raise("InvalidLeafHashSize", 323)
    ELSE LET d == decomp_incl_proof(index, size)
         IN  IF Len(proof) # d.inner + d.border
             THEN Raise("WrongProofSize", 329)
             ELSE LET r1 == chain_inner(Acc(leaf_hash, 0),
                                        SliceTo(proof, d.inner), index)
                      r2 == chain_border_right(r1, SliceFrom(proof, d.inner))
                  IN  Outcome("pass", 0, r2.n, 0, r2.h, NoBytes)

\* verify_inclusion(hasher, inclusion_proof, leaf_hash): inclusion_proof is
\* the record [logIndex, treeSize, hashes, rootHash] of hex strings.
verify_inclusion(inclusion_proof, leaf_hash) ==
    LET index == inclusion_proof.logIndex
        size  == inclusion_proof.treeSize
        proof == inclusion_proof.hashes
        root  == inclusion_proof.rootHash
    IN  IF ~AllHex(proof) THEN Raise("InvalidHex", 357)
        ELSE IF ~IsHex(root) THEN Raise("InvalidHex", 359)
        ELSE IF ~IsHex(leaf_hash) THEN Raise("InvalidHex", 360)
        ELSE LET bytearray_proof == fromhex_all(proof)
                 bytearray_root  == fromhex(root)
                 bytearray_leaf  == fromhex(leaf_hash)
                 r == root_from_inclusion_proof(index, size, bytearray_leaf,
                                                bytearray_proof)
             IN  IF r.kind # "pass" THEN r
                 ELSE IF verify_match(r.calc, bytearray_root)
                 THEN Outcome("pass", 0, r.calls, 1, r.calc, bytearray_root)
                 ELSE Outcome("RootMismatch", 198, r.calls, 1, r.calc,
                              bytearray_root)

\* --------------------------------------------------------- consistency
\* The lowest set bit of size1 as an exponent:
\* (sizes[0] & -sizes[0]).bit_length() - 1
lowest_set_bit_plus1(size1) == bit_length(And(size1, 0 - size1))

lowest_set_bit(size1) == bit_length(And(size1, 0 - size1)) - 1

\* consistency_core taking its seed from the proof for every old size.
consistency_core_start_one(size1, size2, proof, root1, root2) ==
    LET d      == decomp_incl_proof(size1 - 1, size2)
        shift  == lowest_set_bit(size1)
        inner  == d.inner - shift
        border == d.border
        pow2   == size1 = Shl(1, shift)
        seed   == proof[1]
        start  == 1
    IN  IF Len(proof) # start + inner + border
        THEN Raise("WrongProofSize", 170)
        ELSE LET rest   == SliceFrom(proof, start)
                 index  == Shr(size1 - 1, shift)
                 h1i    == chain_inner_right(Acc(seed, 0),
                                             SliceTo(rest, inner), index)
                 hash1  == chain_border_right(h1i, SliceFrom(rest, inner))
                 h2i    == chain_inner(Acc(seed, hash1.n),
                                       SliceTo(rest, inner), index)
                 hash2  == chain_border_right(h2i, SliceFrom(rest, inner))
             IN  IF ~verify_match(hash1.h, root1)
                 THEN Outcome("RootMismatch", 198, hash1.n, 1, hash1.h, root1)
                 ELSE IF ~verify_match(hash2.h, root2)
                 THEN Outcome("RootMismatch", 198, hash2.n, 2, hash2.h, root2)
                 ELSE Outcome("pass", 0, hash2.n, 2, hash2.h, root2)

\* consistency_core comparing the new root before the old one.
consistency_core_new_first(size1, size2, proof, root1, root2) ==
    LET d      == decomp_incl_proof(size1 - 1, size2)
        shift  == lowest_set_bit(size1)
        inner  == d.inner - shift
        border == d.border
        pow2   == size1 = Shl(1, shift)
        seed   == IF pow2 THEN root1 ELSE proof[1]
        start  == IF pow2 THEN 0 ELSE 1
    IN  IF Len(proof) # start + inner + border
        THEN Raise("WrongProofSize", 170)
        ELSE LET rest   == SliceFrom(proof, start)
                 index  == Shr(size1 - 1, shift)
                 h1i    == chain_inner_right(Acc(seed, 0),
                                             SliceTo(rest, inner), index)
                 hash1  == chain_border_right(h1i, SliceFrom(rest, inner))
                 h2i    == chain_inner(Acc(seed, hash1.n),
                                       SliceTo(rest, inner), index)
                 hash2  == chain_border_right(h2i, SliceFrom(rest, inner))
             IN  IF ~verify_match(hash2.h, root2)
                 THEN Outcome("RootMismatch", 198, hash2.n, 1, hash2.h, root2)
                 ELSE IF ~verify_match(hash1.h, root1)
                 THEN Outcome("RootMismatch", 198, hash2.n, 2, hash1.h, root1)
                 ELSE Outcome("pass", 0, hash2.n, 2, hash2.h, root2)

\* The core of verify_consistency (lines 160-184), reached with
\* 0 < size1 < size2 and a proof that is not empty.
consistency_core(size1, size2, proof, root1, root2) ==
    LET d      == decomp_incl_proof(size1 - 1, size2)
        shift  == lowest_set_bit(size1)
        inner  == d.inner - shift
        border == d.border
        pow2   == size1 = Shl(1, shift)
        seed   == IF pow2 THEN root1 ELSE proof[1]
        start  == IF pow2 THEN 0 ELSE 1
    IN  IF Len(proof) # start + inner + border
        THEN Raise("WrongProofSize", 170)
        ELSE LET rest   == SliceFrom(proof, start)
                 index  == Shr(size1 - 1, shift)
                 h1i    == chain_inner_right(Acc(seed, 0),
                                             SliceTo(rest, inner), index)
                 hash1  == chain_border_right(h1i, SliceFrom(rest, inner))
                 h2i    == chain_inner(Acc(seed, hash1.n),
                                       SliceTo(rest, inner), index)
                 hash2  == chain_border_right(h2i, SliceFrom(rest, inner))
             IN  IF ~verify_match(hash1.h, root1)
                 THEN Outcome("RootMismatch", 198, hash1.n, 1, hash1.h, root1)
                 ELSE IF ~verify_match(hash2.h, root2)
                 THEN Outcome("RootMismatch", 198, hash2.n, 2, hash2.h, root2)
                 ELSE Outcome("pass", 0, hash2.n, 2, hash2.h, root2)

\* consistency_checks with the size check made after the emptiness checks.
consistency_checks_size_late(sizes, proof, root1, root2) ==
    IF sizes[1] = sizes[2]
    THEN IF proof # <<>> THEN Raise("UnexpectedProofData", 148)
         ELSE IF verify_match(root1, root2)
         THEN Outcome("pass", 0, 0, 1, root1, root2)
         ELSE Outcome("RootMismatch", 198, 0, 1, root1, root2)
    ELSE IF sizes[1] = 0
    THEN IF proof # <<>> THEN Raise("UnexpectedProofData", 153)
         ELSE Outcome("pass", 0, 0, 0, NoBytes, NoBytes)
    ELSE IF proof = <<>> THEN Raise("EmptyProof", 158)
    ELSE IF sizes[2] < sizes[1] THEN Raise("SizeRegression", 145)
    ELSE consistency_core(sizes[1], sizes[2], proof, root1, root2)

\* consistency_checks without the proof check of equal sizes.
consistency_checks_equal_any_proof(sizes, proof, root1, root2) ==
    IF sizes[2] < sizes[1] THEN Raise("SizeRegression", 145)
    ELSE IF sizes[1] = sizes[2]
    THEN IF verify_match(root1, root2)
         THEN Outcome("pass", 0, 0, 1, root1, root2)
         ELSE Outcome("RootMismatch", 198, 0, 1, root1, root2)
    ELSE IF sizes[1] = 0
    THEN IF proof # <<>> THEN Raise("UnexpectedProofData", 153)
         ELSE Outcome("pass", 0, 0, 0, NoBytes, NoBytes)
    ELSE IF proof = <<>> THEN Raise("EmptyProof", 158)
    ELSE consistency_core(sizes[1], sizes[2], proof, root1, root2)

\* consistency_checks comparing the roots for an empty old tree too.
consistency_checks_empty_tree_match(sizes, proof, root1, root2) ==
    IF sizes[2] < sizes[1] THEN Raise("SizeRegression", 145)
    ELSE IF sizes[1] = sizes[2] \/ sizes[1] = 0
    THEN IF proof # <<>> THEN Raise("UnexpectedProofData", 148)
         ELSE IF verify_match(root1, root2)
         THEN Outcome("pass", 0, 0, 1, root1, root2)
         ELSE Outcome("RootMismatch", 198, 0, 1, root1, root2)
    ELSE IF proof = <<>> THEN Raise("EmptyProof", 158)
    ELSE consistency_core(sizes[1], sizes[2], proof, root1, root2)

\* verify_consistency from line 144 on, the roots and the proof decoded: the
\* edge cases in the order of the code, then the core.
consistency_checks(sizes, proof, root1, root2) ==
    IF sizes[2] < sizes[1] THEN Raise("SizeRegression", 145)
    ELSE IF sizes[1] = sizes[2]
    THEN IF proof # <<>> THEN Raise("UnexpectedProofData", 148)
         ELSE IF verify_match(root1, root2)
         THEN Outcome("pass", 0, 0, 1, root1, root2)
         ELSE Outcome("RootMismatch", 198, 0, 1, root1, root2)
    ELSE IF sizes[1] = 0
    THEN IF proof # <<>> THEN Raise("UnexpectedProofData", 153)
         ELSE Outcome("pass", 0, 0, 0, NoBytes, NoBytes)
    ELSE IF proof = <<>> THEN Raise("EmptyProof", 158)
    ELSE consistency_core(sizes[1], sizes[2], proof, root1, root2)

\* verify_consistency(hasher, sizes, proof, roots): sizes = [old, new],
\* roots = [old, new], proof and roots hex strings, decoded first.
verify_consistency(sizes, proof, roots) ==
    IF ~IsHex(roots[1]) THEN Raise("InvalidHex", 138)
    ELSE IF ~IsHex(roots[2]) THEN Raise("InvalidHex", 139)
    ELSE IF ~AllHex(proof) THEN Raise("InvalidHex", 142)
    ELSE consistency_checks(sizes, fromhex_all(proof), fromhex(roots[1]),
                            fromhex(roots[2]))

\* ------------------------------------------- the log (RFC 6962, 2.1)
\* The log server's side, which is no code of this repository: the Merkle
\* tree hash, the audit path and the consistency proof as RFC 6962 defines
\* them, over a list D of leaf data.
RECURSIVE Pow2Below(_)
\* The largest power of two smaller than n (n > 1).
Pow2Below(n) == IF n <= 2 THEN 1 ELSE 2 * Pow2Below((n + 1) \div 2)

\* Hasher.empty_root(): the hash of the empty string.
empty_root == Raw(hasher_size, 0)

RECURSIVE MTH(_)
MTH(D) ==
    IF Len(D) = 0 THEN empty_root
    ELSE IF Len(D) = 1 THEN hash_leaf(D[1])
    ELSE LET k == Pow2Below(Len(D))
         IN  hash_children(MTH(SubSeq(D, 1, k)), MTH(SubSeq(D, k + 1, Len(D))))

RECURSIVE PATH(_, _)
\* The audit path of leaf m (from 0) in the tree of D, leaf to root.
PATH(m, D) ==
    IF Len(D) <= 1 THEN <<>>
    ELSE LET n == Len(D)
             k == Pow2Below(n)
         IN  IF m < k
             THEN Append(PATH(m, SubSeq(D, 1, k)), MTH(SubSeq(D, k + 1, n)))
             ELSE Append(PATH(m - k, SubSeq(D, k + 1, n)), MTH(SubSeq(D, 1, k)))

RECURSIVE SUBPROOF(_, _, _)
SUBPROOF(m, D, b) ==
    LET n == Len(D)
        k == Pow2Below(n)
    IN  IF m = n THEN (IF b THEN <<>> ELSE <<MTH(D)>>)
        ELSE IF m <= k
        THEN Append(SUBPROOF(m, SubSeq(D, 1, k), b), MTH(SubSeq(D, k + 1, n)))
        ELSE Append(SUBPROOF(m - k, SubSeq(D, k + 1, n), FALSE),
                    MTH(SubSeq(D, 1, k)))

\* RFC 6962's PROOF(m, D): the consistency proof between the first m leaves of
\* D and D (0 < m <= n).
ConsProof(m, D) == SUBPROOF(m, D, TRUE)

RECURSIVE PathLen(_, _)
\* The length of PATH(m, D[n]).
PathLen(m, n) ==
    IF n <= 1 THEN 0
    ELSE LET k == Pow2Below(n)
         IN  IF m < k THEN 1 + PathLen(m, k) ELSE 1 + PathLen(m - k, n - k)

Prefix(D, k) == SubSeq(D, 1, k)

RECURSIVE Subterms(_)
\* The hashes a root is built from.
Subterms(t) ==
    IF t[1] = RFC6962_NODE_HASH_PREFIX
    THEN {t} \cup Subterms(t[2]) \cup Subterms(t[3])
    ELSE {t}

\* A digest-length string that is no hash of the log.
Junk == Raw(hasher_size, 1)

\* The digest-length strings a caller may pass for a log D: every node of its
\* tree, the root of every earlier tree, and a string the log does not hold.
Pool(D) ==
    Subterms(MTH(D)) \cup {MTH(Prefix(D, k)) : k \in 1..Len(D)} \cup {Junk}

HexAll(bs) == [i \in 1..Len(bs) |-> ToHex(bs[i])]

\* ------------------------------------------------------ calls made
\* The arguments of a genuine verify_inclusion call for leaf i of the log D.
GenuineInclusion(D, i) ==
    [logIndex  |-> i,
     treeSize  |-> Len(D),
     hashes    |-> HexAll(PATH(i, D)),
     rootHash  |-> ToHex(MTH(D)),
     leaf_hash |-> ToHex(hash_leaf(D[i + 1]))]

\* The genuine call g and what a caller may get wrong in it: one value
\* replaced, the proof cut or extended, another index or size, hex digits in
\* upper case, a string that is not hexadecimal.
InclusionVariants(D, g) ==
    {g}
    \cup {[g EXCEPT !.hashes[j] = ToHex(v)] : j \in 1..Len(g.hashes), v \in Pool(D)}
    \cup {[g EXCEPT !.leaf_hash = ToHex(v)] :
             v \in Pool(D) \cup {Raw(hasher_size - 1, 1), NoBytes}}
    \cup {[g EXCEPT !.rootHash = ToHex(v)] : v \in Pool(D)}
    \cup {[g EXCEPT !.hashes = SliceTo(g.hashes, j)] : j \in 0..Len(g.hashes)}
    \cup {[g EXCEPT !.hashes = Append(g.hashes, ToHex(Junk))]}
    \cup {[g EXCEPT !.logIndex = i] : i \in (-1)..(Len(D) + 1)}
    \cup {[g EXCEPT !.treeSize = k] : k \in 0..(Len(D) + 1)}
    \cup {[g EXCEPT !.rootHash = ToHexUpper(fromhex(g.rootHash))],
          [g EXCEPT !.leaf_hash = ToHexUpper(fromhex(g.leaf_hash)),
                    !.hashes = [j \in 1..Len(g.hashes) |->
                                  ToHexUpper(fromhex(g.hashes[j]))]],
          [g EXCEPT !.rootHash = BadHex(fromhex(g.rootHash))],
          [g EXCEPT !.leaf_hash = BadHex(fromhex(g.leaf_hash))]}
    \cup {[g EXCEPT !.hashes[j] = BadHex(fromhex(g.hashes[j]))] :
             j \in 1..Len(g.hashes)}

InclusionCalls(D) ==
    UNION {InclusionVariants(D, GenuineInclusion(D, i)) : i \in 0..(Len(D) - 1)}

\* The arguments root_from_inclusion_proof is called with directly: every
\* index and size around the log's, leaf hashes of the digest size and not,
\* proofs of every length, and the genuine ones.
RootCalls(D) ==
    {[index |-> i, size |-> k, leaf_hash |-> l, proof |-> [j \in 1..p |-> Junk]] :
        i \in (-1)..(Len(D) + 1), k \in 0..(Len(D) + 1),
        l \in {hash_leaf(1), Raw(hasher_size - 1, 1), NoBytes},
        p \in 0..MaxProofLen}
    \cup {[index |-> i, size |-> Len(D), leaf_hash |-> hash_leaf(D[i + 1]),
           proof |-> PATH(i, D)] : i \in 0..(Len(D) - 1)}

\* The arguments of the genuine verify_consistency call between the first m
\* leaves of the log D and D.
GenuineConsistency(D, m) ==
    [sizes |-> <<m, Len(D)>>,
     proof |-> IF m = 0 THEN <<>> ELSE HexAll(ConsProof(m, D)),
     roots |-> <<ToHex(MTH(Prefix(D, m))), ToHex(MTH(D))>>]

\* The genuine call g and what a caller may get wrong in it: one value
\* replaced, the proof cut or extended, another old or new size, hex digits
\* in upper case, a string that is not hexadecimal.
ConsistencyVariants(D, g) ==
    {g}
    \cup {[g EXCEPT !.proof[j] = ToHex(v)] : j \in 1..Len(g.proof), v \in Pool(D)}
    \cup {[g EXCEPT !.roots[1] = ToHex(v)] : v \in Pool(D)}
    \cup {[g EXCEPT !.roots[2] = ToHex(v)] : v \in Pool(D)}
    \cup {[g EXCEPT !.proof = SliceTo(g.proof, j)] : j \in 0..Len(g.proof)}
    \cup {[g EXCEPT !.proof = Append(g.proof, ToHex(Junk))]}
    \cup {[g EXCEPT !.sizes[1] = k] : k \in (-1)..(Len(D) + 1)}
    \cup {[g EXCEPT !.sizes[2] = k] : k \in (-1)..(Len(D) + 1)}
    \cup {[g EXCEPT !.roots[1] = ToHexUpper(fromhex(g.roots[1]))],
          [g EXCEPT !.roots[2] = ToHexUpper(fromhex(g.roots[2])),
                    !.proof = [j \in 1..Len(g.proof) |->
                                 ToHexUpper(fromhex(g.proof[j]))]],
          [g EXCEPT !.roots[1] = BadHex(fromhex(g.roots[1]))],
          [g EXCEPT !.roots[2] = BadHex(fromhex(g.roots[2]))]}
    \cup {[g EXCEPT !.proof[j] = BadHex(fromhex(g.proof[j]))] :
             j \in 1..Len(g.proof)}

SwapSizes(c) == [c EXCEPT !.sizes = <<c.sizes[2], c.sizes[1]>>]

SwapRoots(c) == [c EXCEPT !.roots = <<c.roots[2], c.roots[1]>>]

ConsistencyCalls(D) ==
    LET V == UNION {ConsistencyVariants(D, GenuineConsistency(D, m)) :
                      m \in 0..Len(D)}
    IN  V \cup {SwapSizes(c) : c \in V} \cup {SwapRoots(c) : c \in V}
          \cup {SwapSizes(SwapRoots(c)) : c \in V}

\* --------------------------------------------------------- the machine
\* log is the list of leaf data the log server holds; op is the function
\* being called ("idle" between calls), arg its arguments and res its outcome.
NoArg == <<>>

NoRes == Raise("none", 0)

\* ------------------------------------------- the command line (main.py)
\* Strings of the command line: the option that was not given (None), the
\* decimal numeral str(n), a word of k letters, and the hex strings above.
NotGiven == <<"None">>

Str(n) == <<"dec", n>>

Letters(k) == <<"text", k>>

RECURSIVE NumDigits(_)
NumDigits(n) == IF n < 10 THEN 1 ELSE 1 + NumDigits(n \div 10)

\* len(s)
StrLen(s) ==
    IF s[1] = "dec"
    THEN IF s[2] < 0 THEN 1 + NumDigits(0 - s[2]) ELSE NumDigits(s[2])
    ELSE IF s[1] = "text" THEN s[2]
    ELSE 2 * ByteLen(s[2])

\* not s
Falsy(s) == s = NotGiven \/ StrLen(s) = 0

\* s.isdigit(): a numeral without a sign.
isdigit(s) == s[1] = "dec" /\ s[2] >= 0

\* The checks of main on the options of --consistency, the digit checks
\* made before the presence checks.
main_consistency_checks_digits_first(tree_id, tree_size, root_hash) ==
    IF tree_id # NotGiven /\ ~isdigit(tree_id)
    THEN "tree id must be an integer"
    ELSE IF tree_size # NotGiven /\ ~isdigit(tree_size)
    THEN "tree size must be an integer"
    ELSE IF Falsy(tree_id) THEN "please specify tree id for prev checkpoint"
    ELSE IF Falsy(tree_size)
    THEN "please specify tree size for prev checkpoint"
    ELSE IF Falsy(root_hash)
    THEN "please specify root hash for prev checkpoint"
    ELSE IF StrLen(root_hash) # 64
    THEN "root hash must be 64 characters long"
    ELSE "ok"

\* The checks of main on the options of --consistency: the message printed
\* before main returns, "ok" when consistency() is called.
main_consistency_checks(tree_id, tree_size, root_hash) ==
    IF Falsy(tree_id) THEN "please specify tree id for prev checkpoint"
    ELSE IF Falsy(tree_size)
    THEN "please specify tree size for prev checkpoint"
    ELSE IF Falsy(root_hash)
    THEN "please specify root hash for prev checkpoint"
    ELSE IF ~isdigit(tree_id) THEN "tree id must be an integer"
    ELSE IF ~isdigit(tree_size) THEN "tree size must be an integer"
    ELSE IF StrLen(root_hash) # 64
    THEN "root hash must be 64 characters long"
    ELSE "ok"

\* A value returned: None, or the value v.
ReturnsNone == [none |-> TRUE]

Returns(v) == [none |-> FALSE, value |-> v]

\* A line printed, with the error it ends in ("" for none).
Line(text, e) == [text |-> text, e |-> e]

\* The Python exception a failure of a verifier is raised as.
ExcClass(kind) ==
    IF kind = "RootMismatch" THEN "RootMismatchError"
    ELSE IF kind = "TypeError" THEN "TypeError"
    ELSE "ValueError"

\* What requests.get and resp.json() come to: the call raises before a
\* response exists (a connection error, a timeout), or the response has an
\* error status or not, and a body that is JSON or not.
Resp(net, status, json, content) ==
    [net |-> net, status |-> status, json |-> json, content |-> content]

NetRaises == Resp("raise", "none", FALSE, [message |-> "none"])

ErrorJson(code) == [code |-> code, message |-> "error"]

\* The responses a request may get when the server would answer content.
Responses(content) ==
    {NetRaises, Resp("ok", "ok", TRUE, content)}
    \cup {Resp("ok", st, FALSE, [message |-> "none"]) : st \in {"ok", "error"}}
    \cup {Resp("ok", "error", TRUE, ErrorJson(500))}

\* What a helper comes to: the value returned, the exception that escapes it
\* ("none" when it returns) and the lines printed.
Fetched(ret, raised, out) == [ret |-> ret, raised |-> raised, out |-> out]

\* The except clause of the two fetch helpers: two lines are printed, the
\* second after resp.raise_for_status(), which raises UnboundLocalError when
\* requests.get raised (resp was never assigned) and HTTPError for an error
\* status.
fetch_handler(resp, failed, response_was) ==
    IF resp.net = "raise"
    THEN Fetched(ReturnsNone, "UnboundLocalError", <<Line(failed, "e")>>)
    ELSE IF resp.status = "error"
    THEN Fetched(ReturnsNone, "HTTPError", <<Line(failed, "e")>>)
    ELSE Fetched(ReturnsNone, "none",
                 <<Line(failed, "e"), Line(response_was, "None")>>)

\* get_log_entry(log_index): resp is what the request comes to. A body that
\* is no JSON raises requests' JSONDecodeError, a RequestException from
\* requests 2.27 on and a plain ValueError before.
get_log_entry(resp, json_error_is_request_exception) ==
    IF resp.net = "raise"
    THEN fetch_handler(resp, "Failed to fetch log entry from log index",
                       "Respone was: ")
    ELSE IF ~resp.json
    THEN IF json_error_is_request_exception
         THEN fetch_handler(resp, "Failed to fetch log entry from log index",
                            "Respone was: ")
         ELSE Fetched(ReturnsNone, "ValueError", <<>>)
    ELSE IF "code" \in DOMAIN resp.content /\ resp.content.code = 609
    THEN Fetched(ReturnsNone, "none", <<>>)
    ELSE Fetched(Returns(resp.content), "none", <<>>)

\* get_latest_checkpoint(): RequestException and ValueError are caught.
get_latest_checkpoint(resp) ==
    IF resp.net = "raise" \/ ~resp.json
    THEN fetch_handler(resp,
           "Failed to fetch latest checkpoint from Rekor Server public instance: ",
           "Response was: ")
    ELSE Fetched(Returns(resp.content), "none", <<>>)

\* get_verification_proof(log_index): an entry is keyed by its uuid; an
\* error object holds a number under its first key, which has no subscript.
get_verification_proof(resp, json_error_is_request_exception) ==
    LET e == get_log_entry(resp, json_error_is_request_exception)
    IN  IF e.raised # "none" THEN e
        ELSE IF e.ret.none
        THEN Fetched(ReturnsNone, "none",
               e.out \o <<Line("No log entry found for given log index", "")>>)
        ELSE IF "uuid" \notin DOMAIN e.ret.value
        THEN Fetched(ReturnsNone, "TypeError", e.out)
        ELSE IF "verification" \notin DOMAIN e.ret.value.uuid
        THEN Fetched(ReturnsNone, "KeyError", e.out)
        ELSE Fetched(Returns(e.ret.value.uuid.verification), "none", e.out)

\* What a command comes to: the lines printed, the exception that escapes it
\* ("none" when it returns), the requests made, the outcome of the verifier
\* it called (NoRes when it called none) and the commands main called.
Run(out, raised, requests, verify) ==
    [out |-> out, raised |-> raised, requests |-> requests,
     verify |-> verify, called |-> <<>>]

\* verify_consistency as consistency() calls it: sizes[0] is the string of
\* the command line and sizes[1] the number of the checkpoint, so after the
\* decoding sizes[1] < sizes[0] raises TypeError.
verify_consistency_str(sizes, proof, roots) ==
    IF ~IsHex(roots[1]) THEN Raise("InvalidHex", 138)
    ELSE IF ~IsHex(roots[2]) THEN Raise("InvalidHex", 139)
    ELSE IF ~AllHex(proof) THEN Raise("InvalidHex", 142)
    ELSE Raise("TypeError", 144)

\* consistency(prev_checkpoint): env holds what the two requests come to.
consistency(prev_checkpoint, env) ==
    IF DOMAIN prev_checkpoint = {}
    THEN Run(<<Line("No previous checkpoint to verify consistency with", "")>>,
             "none", 0, NoRes)
    ELSE
    LET c == get_latest_checkpoint(env.checkpoint)
    IN  IF c.raised # "none" THEN Run(c.out, c.raised, 1, NoRes)
        ELSE IF c.ret.none THEN Run(c.out, "TypeError", 1, NoRes)
        ELSE IF ~({"treeSize", "rootHash"} \subseteq DOMAIN c.ret.value)
        THEN Run(c.out, "KeyError", 1, NoRes)
        ELSE
        LET latest_tree_size == c.ret.value.treeSize
            latest_root      == c.ret.value.rootHash
            prev_tree_size   == prev_checkpoint.treeSize
            prev_root        == prev_checkpoint.rootHash
            failed(e, v) ==
                Run(c.out \o <<Line("Failed to verify consistency proof from Rekor Server public instance: ", e)>>,
                    "none", 2, v)
        IN  IF env.proof.net = "raise" THEN failed("RequestException", NoRes)
            ELSE IF ~env.proof.json THEN failed("JSONDecodeError", NoRes)
            ELSE IF "hashes" \notin DOMAIN env.proof.content
            THEN failed("KeyError", NoRes)
            ELSE
            LET v == verify_consistency_str(
                         <<prev_tree_size, latest_tree_size>>,
                         env.proof.content.hashes,
                         <<prev_root, latest_root>>)
            IN  IF v.kind = "pass"
                THEN Run(c.out \o <<Line("Verified consistency", "")>>,
                         "none", 2, v)
                ELSE IF ExcClass(v.kind) \in {"RootMismatchError", "ValueError"}
                THEN failed(ExcClass(v.kind), v)
                ELSE Run(c.out, ExcClass(v.kind), 2, v)

\* main with --consistency: the checks, then consistency().
main(args, env) ==
    LET msg == main_consistency_checks(args.tree_id, args.tree_size,
                                       args.root_hash)
    IN  IF msg # "ok" THEN Run(<<Line(msg, "")>>, "none", 0, NoRes)
        ELSE [consistency([treeID   |-> args.tree_id,
                           treeSize |-> args.tree_size,
                           rootHash |-> args.root_hash], env)
                EXCEPT !.called = <<"consistency">>]

\* The base64 text of the entry data d.
B64(d) == <<"b64", d>>

\* compute_leaf_hash(body): the hex digest of the leaf hash of the decoded
\* body.
compute_leaf_hash(body) == ToHex(hash_leaf(body[2]))

\* The steps of inclusion() on the decoded entry up to
\* verify_artifact_signature: text that is no base64 fails to decode, a
\* missing artifact file fails to open.
verify_artifact_signature(body, artifact_exists) ==
    IF body[1] # "b64" THEN "binascii.Error"
    ELSE IF ~artifact_exists THEN "FileNotFoundError"
    ELSE "none"

\* The exceptions inclusion() catches.
InclusionCaught ==
    {"KeyError", "ValueError", "TypeError", "FileNotFoundError",
     "binascii.Error"}

\* inclusion(log_index, artifact_filepath): env holds what the request for
\* the entry and the one for its proof come to, and whether the artifact
\* file exists.
inclusion(env) ==
    LET g == get_log_entry(env.entry, env.json_error_is_request_exception)
    IN  IF g.raised # "none" THEN Run(g.out, g.raised, 1, NoRes)
        ELSE IF g.ret.none
        THEN Run(g.out \o <<Line("No log entry found for given log index", "")>>,
                 "none", 1, NoRes)
        ELSE
        LET log_entry == g.ret.value
            failed(out, e, n, v) ==
                Run(out \o <<Line("Failed to verify inclusion of log index", e)>>,
                    "none", n, v)
        IN  IF "uuid" \notin DOMAIN log_entry
            THEN failed(g.out, "TypeError", 1, NoRes)
            ELSE IF "body" \notin DOMAIN log_entry.uuid
            THEN failed(g.out, "KeyError", 1, NoRes)
            ELSE
            LET body == log_entry.uuid.body
                sig  == verify_artifact_signature(body, env.artifact_exists)
                p    == get_verification_proof(env.proof,
                            env.json_error_is_request_exception)
                out  == g.out \o p.out
            IN  IF sig # "none" THEN failed(g.out, sig, 1, NoRes)
                ELSE IF p.raised \in InclusionCaught
                THEN failed(out, p.raised, 2, NoRes)
                ELSE IF p.raised # "none" THEN Run(out, p.raised, 2, NoRes)
                ELSE IF p.ret.none THEN failed(out, "TypeError", 2, NoRes)
                ELSE IF "inclusionProof" \notin DOMAIN p.ret.value
                THEN failed(out, "KeyError", 2, NoRes)
                ELSE
                LET v == verify_inclusion(p.ret.value.inclusionProof,
                                          compute_leaf_hash(body))
                IN  IF v.kind = "pass"
                    THEN Run(out \o <<Line("Verified inclusion", "")>>,
                             "none", 2, v)
                    ELSE IF ExcClass(v.kind) \in InclusionCaught
                    THEN failed(out, ExcClass(v.kind), 2, v)
                    ELSE Run(out, ExcClass(v.kind), 2, v)

\* ------------------------------------------------ the Rekor server
\* The server's side, which is no code of this repository: what it answers
\* for a log D.
Checkpoint(D) == [treeSize |-> Len(D), rootHash |-> ToHex(MTH(D))]

\* The answer to /log/proof?firstSize=first&lastSize=last.
ServerProof(first, last, D) ==
    IF 0 < first /\ first <= last /\ last <= Len(D)
    THEN [hashes |-> HexAll(ConsProof(first, Prefix(D, last))),
          rootHash |-> ToHex(MTH(Prefix(D, last)))]
    ELSE ErrorJson(400)

\* The entry of leaf i, with its inclusion proof in the tree of D.
Entry(D, i) ==
    [uuid |->
       [body |-> B64(D[i + 1]),
        logIndex |-> i,
        verification |->
          [inclusionProof |->
             [logIndex |-> i, treeSize |-> Len(D),
              hashes |-> HexAll(PATH(i, D)), rootHash |-> ToHex(MTH(D))]]]]

\* The answer to /log/entries?logIndex=i: the entry, or the error object of
\* code 609 for an index the log does not hold.
ServerEntry(D, i) ==
    IF i \in 0..(Len(D) - 1) THEN Entry(D, i) ELSE ErrorJson(609)

\* The entry e and the ways an answer may depart from it: another root,
\* a tree size that is the index, a proof cut by an element, a body that is
\* no base64, no body, no inclusion proof.
EntryVariants(e) ==
    {e,
     [e EXCEPT !.uuid.verification.inclusionProof.rootHash = ToHex(Junk)],
     [e EXCEPT !.uuid.verification.inclusionProof.treeSize = e.uuid.logIndex],
     [e EXCEPT !.uuid.verification.inclusionProof.hashes =
                   SubSeq(@, 1, Len(@) - 1)],
     [e EXCEPT !.uuid.body = Letters(3)],
     [uuid |-> [logIndex |-> e.uuid.logIndex,
                verification |-> e.uuid.verification]],
     [e EXCEPT !.uuid.verification = [signedEntryTimestamp |-> "none"]]}

\* ------------------------------------------------ threads on one Hasher
\* hasher is the one Hasher instance every call is given, heap the hash
\* objects made by hasher.new() (the blocks each was updated with), thr
\* what each thread is doing.
Threads == 1..NThreads

\* DefaultHasher = Hasher(hashlib.sha256): its one attribute.
DefaultHasher == [hash_func |-> "sha256"]

\* One hash object handed to every caller.
hasher_new_one(t) == 1

\* hasher.new(): self.hash_func() makes a hash object of its own for the
\* call, here named after the thread that made it.
hasher_new(t) == t

\* b = bytes([RFC6962_NODE_HASH_PREFIX]) + left + right
Block(left, right) == [left |-> left, right |-> right]

\* h.digest(): the hash of everything h was updated with; an object updated
\* with more than one block holds their concatenation, <<3, blocks>>.
Digest(blocks) ==
    IF Len(blocks) = 1 THEN hash_children(blocks[1].left, blocks[1].right)
    ELSE <<3, blocks>>

\* One turn of a chaining loop: the element and the side the seed is on.
Fold(side, elem) == [side |-> side, elem |-> elem]

\* The turns of chain_inner, chain_inner_right and chain_border_right.
inner_folds(proof, index) ==
    [i \in 1..Len(proof) |->
        Fold(IF And(Shr(index, i - 1), 1) = 0 THEN "left" ELSE "right",
             proof[i])]

IsRightFold(f) == f.side = "right"

inner_right_folds(proof, index) ==
    SelectSeq(inner_folds(proof, index), IsRightFold)

border_folds(proof) == [i \in 1..Len(proof) |-> Fold("right", proof[i])]

\* A chain still to run: its seed, its turns and the root to match.
Phase(seed, todo, expected) ==
    [seed |-> seed, todo |-> todo, expected |-> expected]

IdleThread ==
    [pc |-> "idle", kind |-> "none", arg |-> NoArg, given |-> NoArg,
     h |-> 0, seed |-> NoBytes, todo |-> <<>>, expected |-> NoBytes,
     later |-> <<>>, calls |-> 0, matches |-> 0, out |-> NoRes]

Init ==
    /\ log = <<>>
    /\ op = "idle"
    /\ arg = NoArg
    /\ res = NoRes
    /\ hasher = DefaultHasher
    /\ heap = [o \in Threads |-> <<>>]
    /\ thr = [t \in Threads |-> IdleThread]

\* The log server appends a leaf; the leaf data are told apart by position.
AppendLeaf ==
    /\ op = "idle"
    /\ Len(log) < MaxSize
    /\ log' = Append(log, Len(log) + 1)
    /\ UNCHANGED <<op, arg, res, hasher, heap, thr>>

CallDecompInclProof ==
    /\ op = "idle"
    /\ \E index \in (-1)..MaxShape, size \in 0..MaxShape :
        /\ op' = "decomp_incl_proof"
        /\ arg' = [index |-> index, size |-> size]
        /\ res' = decomp_incl_proof(index, size)
        /\ UNCHANGED <<log, hasher, heap, thr>>

CallRootFromInclusionProof ==
    /\ op = "idle"
    /\ \E c \in RootCalls(log) :
        /\ op' = "root_from_inclusion_proof"
        /\ arg' = c
        /\ res' = root_from_inclusion_proof(c.index, c.size, c.leaf_hash, c.proof)
        /\ UNCHANGED <<log, hasher, heap, thr>>

CallVerifyInclusion ==
    /\ op = "idle"
    /\ \E c \in InclusionCalls(log) :
        /\ op' = "verify_inclusion"
        /\ arg' = c
        /\ res' = verify_inclusion(c, c.leaf_hash)
        /\ UNCHANGED <<log, hasher, heap, thr>>

\* verify_consistency is called: with a genuine call or a variant of one, or
\* (for a log of at most MaxForge leaves) with any proof of the genuine
\* length over the pool, any old root of the pool and the genuine new root.
CallVerifyConsistency ==
    /\ op = "idle"
    /\ \E c \in ConsistencyCalls(log) :
        /\ op' = "verify_consistency"
        /\ arg' = c
        /\ res' = verify_consistency(c.sizes, c.proof, c.roots)
        /\ UNCHANGED <<log, hasher, heap, thr>>

CallVerifyConsistencyForged ==
    /\ op = "idle"
    /\ Len(log) <= MaxForge
    /\ \E m \in 1..(Len(log) - 1) :
       \E p \in [1..Len(ConsProof(m, log)) -> Pool(log)], v \in Pool(log) :
         LET c == [sizes |-> <<m, Len(log)>>, proof |-> HexAll(p),
                   roots |-> <<ToHex(v), ToHex(MTH(log))>>]
         IN  /\ op' = "verify_consistency"
             /\ arg' = c
             /\ res' = verify_consistency(c.sizes, c.proof, c.roots)
             /\ UNCHANGED <<log, hasher, heap, thr>>

\* No request was made, so nothing came back.
Unasked == Resp("unasked", "none", FALSE, [message |-> "none"])

\* The strings given for --tree-id, and for --tree-size and --root-hash
\* when the previous checkpoint is the tree of the first m leaves.
TreeIds == {NotGiven, Letters(0), Letters(2), Str(0 - 1), Str(7)}

TreeSizes(m) == {NotGiven, Letters(0), Letters(2), Str(0 - 1), Str(m)}

RootHashes(D, m) ==
    {NotGiven, Letters(0), Letters(1), ToHex(Raw(hasher_size - 1, 1)),
     BadHex(Junk), ToHex(Junk), ToHex(MTH(Prefix(D, Min(m, Len(D)))))}

\* main is run with --consistency: the responses are drawn for the requests
\* it makes, the one for the proof as the server answers the request sent
\* (firstSize the latest size, lastSize the previous one) or as it would
\* answer for the two sizes in their order.
CallMain ==
    /\ op = "idle"
    /\ \E m \in 0..(Len(log) + 1) :
       \E tree_id \in TreeIds, tree_size \in TreeSizes(m),
          root_hash \in RootHashes(log, m) :
         LET args == [tree_id |-> tree_id, tree_size |-> tree_size,
                      root_hash |-> root_hash]
             ok   == main_consistency_checks(tree_id, tree_size, root_hash)
                       = "ok"
         IN  \E checkpoint \in IF ok THEN Responses(Checkpoint(log))
                               ELSE {Unasked} :
             \E proof \in IF ok /\ checkpoint.json
                               /\ "treeSize" \in DOMAIN checkpoint.content
                          THEN Responses(ServerProof(Len(log), m, log))
                               \cup {Resp("ok", "ok", TRUE,
                                          ServerProof(m, Len(log), log))}
                          ELSE {Unasked} :
               LET env == [checkpoint |-> checkpoint, proof |-> proof]
               IN  /\ op' = "main"
                   /\ arg' = [args |-> args, env |-> env]
                   /\ res' = main(args, env)
                   /\ UNCHANGED <<log, hasher, heap, thr>>

\* inclusion() is run for a log index: each of its two requests gets the
\* server's answer, a variant of it, or fails.
CallInclusion ==
    /\ op = "idle"
    /\ \E i \in (-1)..Len(log), artifact_exists \in BOOLEAN,
          json_error_is_request_exception \in BOOLEAN :
       \E e \in IF i \in 0..(Len(log) - 1)
                THEN EntryVariants(ServerEntry(log, i))
                ELSE {ServerEntry(log, i)} :
       \E entry \in Responses(e) :
       \E proof \in IF entry.json /\ "uuid" \in DOMAIN entry.content
                       /\ "body" \in DOMAIN entry.content.uuid
                       /\ verify_artifact_signature(entry.content.uuid.body,
                                                    artifact_exists) = "none"
                    THEN Responses(e) ELSE {Unasked} :
         LET env == [entry |-> entry, proof |-> proof,
                     artifact_exists |-> artifact_exists,
                     json_error_is_request_exception |->
                         json_error_is_request_exception]
         IN  /\ op' = "inclusion"
             /\ arg' = [log_index |-> i, env |-> env]
             /\ res' = inclusion(env)
             /\ UNCHANGED <<log, hasher, heap, thr>>

CallGetLogEntry ==
    /\ op = "idle"
    /\ \E i \in (-1)..Len(log), json_error_is_request_exception \in BOOLEAN :
       \E resp \in Responses(ServerEntry(log, i)) :
         /\ op' = "get_log_entry"
         /\ arg' = [log_index |-> i, resp |-> resp,
                    json_error_is_request_exception |->
                        json_error_is_request_exception]
         /\ res' = get_log_entry(resp, json_error_is_request_exception)
         /\ UNCHANGED <<log, hasher, heap, thr>>

CallGetVerificationProof ==
    /\ op = "idle"
    /\ \E i \in (-1)..Len(log), json_error_is_request_exception \in BOOLEAN :
       \E resp \in Responses(ServerEntry(log, i)) :
         /\ op' = "get_verification_proof"
         /\ arg' = [log_index |-> i, resp |-> resp,
                    json_error_is_request_exception |->
                        json_error_is_request_exception]
         /\ res' = get_verification_proof(resp,
                                          json_error_is_request_exception)
         /\ UNCHANGED <<log, hasher, heap, thr>>

CallGetLatestCheckpoint ==
    /\ op = "idle"
    /\ \E resp \in Responses(Checkpoint(log)) :
         /\ op' = "get_latest_checkpoint"
         /\ arg' = [resp |-> resp]
         /\ res' = get_latest_checkpoint(resp)
         /\ UNCHANGED <<log, hasher, heap, thr>>

\* The caller takes the outcome of the call; the verifiers keep no state.
Return ==
    /\ op # "idle"
    /\ op' = "idle"
    /\ arg' = NoArg
    /\ res' = NoRes
    /\ UNCHANGED <<log, hasher, heap, thr>>

Next ==
    \/ AppendLeaf
    \/ Return
    \/ CallDecompInclProof
    \/ CallRootFromInclusionProof
    \/ CallVerifyInclusion
    \/ CallVerifyConsistency
    \/ CallVerifyConsistencyForged
    \/ CallMain
    \/ CallInclusion
    \/ CallGetLogEntry
    \/ CallGetVerificationProof
    \/ CallGetLatestCheckpoint

Spec == Init /\ [][Next]_vars

\* ----------------------------------------- calls of threads, step by step
\* The calls the threads make: genuine calls against the log (its first and
\* its last leaf; its first leaf alone, all but its last leaf, and itself as
\* the old tree), a call with another root and a call with a string that is
\* not hexadecimal.
ParInclusionCalls(D) ==
    {GenuineInclusion(D, i) : i \in {0, Len(D) - 1}}
    \cup {[GenuineInclusion(D, Len(D) - 1) EXCEPT !.rootHash = ToHex(Junk)]}

ParConsistencyCalls(D) ==
    {GenuineConsistency(D, m) : m \in {1, Len(D) - 1, Len(D)}}
    \cup {[GenuineConsistency(D, Len(D) - 1) EXCEPT !.roots[2] = ToHex(Junk)],
          [GenuineConsistency(D, 1) EXCEPT !.roots[1] = BadHex(Junk)]}

InitPar ==
    /\ log = [i \in 1..ParLeaves |-> i]
    /\ op = "idle"
    /\ arg = NoArg
    /\ res = NoRes
    /\ hasher = DefaultHasher
    /\ heap = [o \in Threads |-> <<>>]
    /\ thr = [t \in Threads |-> IdleThread]

\* The thread starts the chain ph: straight to the comparison when the chain
\* has no turn.
Chain(th, ph) ==
    [th EXCEPT !.seed = ph.seed, !.todo = ph.todo, !.expected = ph.expected,
               !.pc = IF ph.todo = <<>> THEN "match" ELSE "new"]

\* verify_inclusion up to the call of hasher.size(): the decoding of the
\* hex strings and the index check, none of which makes a hash object.
ParCallVerifyInclusion(t) ==
    /\ thr[t].pc = "idle"
    /\ \E c \in ParInclusionCalls(log) :
        LET th == [thr[t] EXCEPT !.kind = "verify_inclusion", !.arg = c,
                                 !.given = c]
            fail(o) == [th EXCEPT !.pc = "done", !.out = o]
        IN  thr' = [thr EXCEPT ![t] =
              IF ~AllHex(c.hashes) THEN fail(Raise("InvalidHex", 357))
              ELSE IF ~IsHex(c.rootHash) THEN fail(Raise("InvalidHex", 359))
              ELSE IF ~IsHex(c.leaf_hash) THEN fail(Raise("InvalidHex", 360))
              ELSE IF c.logIndex >= c.treeSize
              THEN fail(Raise("IndexOutOfRange", 320))
              ELSE [th EXCEPT !.pc = "size"]]
    /\ UNCHANGED <<log, op, arg, res, hasher, heap>>

\* hasher.size() makes a hash object to read its digest size; then the leaf
\* hash and proof length checks, and the chain of the proof is set up.
ParSize(t) ==
    /\ thr[t].pc = "size"
    /\ LET c     == thr[t].arg
           h     == hasher_new(t)
           leaf  == fromhex(c.leaf_hash)
           proof == fromhex_all(c.hashes)
           d     == decomp_incl_proof(c.logIndex, c.treeSize)
           th    == [thr[t] EXCEPT !.h = h]
       IN  /\ heap' = [heap EXCEPT ![h] = <<>>]
           /\ thr' = [thr EXCEPT ![t] =
                IF ByteLen(leaf) # Sha256DigestSize
                THEN [th EXCEPT !.pc = "done",
                                !.out = Raise("InvalidLeafHashSize", 323)]
                ELSE IF Len(proof) # d.inner + d.border
                THEN [th EXCEPT !.pc = "done",
                                !.out = Raise("WrongProofSize", 329)]
                ELSE Chain(th,
                       Phase(leaf,
                             inner_folds(SliceTo(proof, d.inner), c.logIndex)
                               \o border_folds(SliceFrom(proof, d.inner)),
                             fromhex(c.rootHash)))]
    /\ UNCHANGED <<log, op, arg, res, hasher>>

\* verify_consistency up to its first hash_children call: the decoding, the
\* checks on the sizes and the proof length, the two chains set up.
ParCallVerifyConsistency(t) ==
    /\ thr[t].pc = "idle"
    /\ \E c \in ParConsistencyCalls(log) :
        LET th == [thr[t] EXCEPT !.kind = "verify_consistency", !.arg = c,
                                 !.given = c]
            fail(o) == [th EXCEPT !.pc = "done", !.out = o]
            root1  == fromhex(c.roots[1])
            root2  == fromhex(c.roots[2])
            proof  == fromhex_all(c.proof)
            size1  == c.sizes[1]
            size2  == c.sizes[2]
            d      == decomp_incl_proof(size1 - 1, size2)
            shift  == lowest_set_bit(size1)
            inner  == d.inner - shift
            border == d.border
            pow2   == size1 = Shl(1, shift)
            seed   == IF pow2 THEN root1 ELSE proof[1]
            start  == IF pow2 THEN 0 ELSE 1
            rest   == SliceFrom(proof, start)
            index  == Shr(size1 - 1, shift)
            tail   == border_folds(SliceFrom(rest, inner))
        IN  thr' = [thr EXCEPT ![t] =
              IF ~IsHex(c.roots[1]) THEN fail(Raise("InvalidHex", 138))
              ELSE IF ~IsHex(c.roots[2]) THEN fail(Raise("InvalidHex", 139))
              ELSE IF ~AllHex(c.proof) THEN fail(Raise("InvalidHex", 142))
              ELSE IF size2 < size1 THEN fail(Raise("SizeRegression", 145))
              ELSE IF size1 = size2
              THEN IF proof # <<>>
                   THEN fail(Raise("UnexpectedProofData", 148))
                   ELSE Chain(th, Phase(root1, <<>>, root2))
              ELSE IF size1 = 0
              THEN IF proof # <<>>
                   THEN fail(Raise("UnexpectedProofData", 153))
                   ELSE fail(Outcome("pass", 0, 0, 0, NoBytes, NoBytes))
              ELSE IF proof = <<>> THEN fail(Raise("EmptyProof", 158))
              ELSE IF Len(proof) # start + inner + border
              THEN fail(Raise("WrongProofSize", 170))
              ELSE Chain([th EXCEPT !.later =
                            <<Phase(seed,
                                    inner_folds(SliceTo(rest, inner), index)
                                      \o tail,
                                    root2)>>],
                         Phase(seed,
                               inner_right_folds(SliceTo(rest, inner), index)
                                 \o tail,
                               root1))]
    /\ UNCHANGED <<log, op, arg, res, hasher, heap>>

\* hash_children, first statement: h = self.new()
ParNew(t) ==
    /\ thr[t].pc = "new"
    /\ LET h == hasher_new(t)
       IN  /\ heap' = [heap EXCEPT ![h] = <<>>]
           /\ thr' = [thr EXCEPT ![t].h = h, ![t].pc = "update"]
    /\ UNCHANGED <<log, op, arg, res, hasher>>

\* hash_children, second and third statement: b is built and h.update(b)
ParUpdate(t) ==
    /\ thr[t].pc = "update"
    /\ LET f == Head(thr[t].todo)
           b == IF f.side = "left" THEN Block(thr[t].seed, f.elem)
                ELSE Block(f.elem, thr[t].seed)
       IN  heap' = [heap EXCEPT ![thr[t].h] = Append(@, b)]
    /\ thr' = [thr EXCEPT ![t].pc = "digest"]
    /\ UNCHANGED <<log, op, arg, res, hasher>>

\* hash_children, last statement: return h.digest(), which the loop takes as
\* its seed.
ParDigest(t) ==
    /\ thr[t].pc = "digest"
    /\ thr' = [thr EXCEPT ![t].seed = Digest(heap[thr[t].h]),
                          ![t].todo = Tail(@),
                          ![t].calls = @ + 1,
                          ![t].pc = IF Tail(thr[t].todo) = <<>> THEN "match"
                                    ELSE "new"]
    /\ UNCHANGED <<log, op, arg, res, hasher, heap>>

\* verify_match(calculated, expected) at the end of a chain: a mismatch ends
\* the call; after a match the next chain starts, or the call returns.
ParMatch(t) ==
    /\ thr[t].pc = "match"
    /\ LET th == [thr[t] EXCEPT !.matches = @ + 1]
           o(kind, at) == Outcome(kind, at, th.calls, th.matches, th.seed,
                                  th.expected)
       IN  thr' = [thr EXCEPT ![t] =
             IF ~verify_match(th.seed, th.expected)
             THEN [th EXCEPT !.pc = "done", !.out = o("RootMismatch", 198)]
             ELSE IF th.later = <<>>
             THEN [th EXCEPT !.pc = "done", !.out = o("pass", 0)]
             ELSE Chain([th EXCEPT !.later = Tail(@)], Head(th.later))]
    /\ UNCHANGED <<log, op, arg, res, hasher, heap>>

\* The caller takes the outcome of the call.
ParReturn(t) ==
    /\ thr[t].pc = "done"
    /\ thr' = [thr EXCEPT ![t] = IdleThread]
    /\ UNCHANGED <<log, op, arg, res, hasher, heap>>

NextPar ==
    \E t \in Threads :
        \/ ParCallVerifyInclusion(t)
        \/ ParSize(t)
        \/ ParCallVerifyConsistency(t)
        \/ ParNew(t)
        \/ ParUpdate(t)
        \/ ParDigest(t)
        \/ ParMatch(t)
        \/ ParReturn(t)

SpecPar == InitPar /\ [][NextPar]_vars

\* ------------------------------------------------------------ claims
\* The arguments of a verify_inclusion call, decoded.
InclDecodable(a) == AllHex(a.hashes) /\ IsHex(a.rootHash) /\ IsHex(a.leaf_hash)

\* The call is about a leaf of a tree the log has held.
InLog(a) == a.treeSize \in 1..Len(log) /\ a.logIndex \in 0..(a.treeSize - 1)

TruePath(a) == PATH(a.logIndex, Prefix(log, a.treeSize))

TrueRoot(a) == MTH(Prefix(log, a.treeSize))

TrueLeaf(a) == hash_leaf(log[a.logIndex + 1])

IsGenuineInclusion(a) ==
    /\ InclDecodable(a)
    /\ InLog(a)
    /\ fromhex_all(a.hashes) = TruePath(a)
    /\ fromhex(a.leaf_hash) = TrueLeaf(a)
    /\ fromhex(a.rootHash) = TrueRoot(a)

IsGenuineRootCall(a) ==
    /\ a.size \in 1..Len(log)
    /\ a.index \in 0..(a.size - 1)
    /\ a.proof = PATH(a.index, Prefix(log, a.size))
    /\ a.leaf_hash = hash_leaf(log[a.index + 1])

\* C1: inclusion round trip. For every tree size n >= 1 the log has held and
\* every index < n, verify_inclusion and root_from_inclusion_proof, given the
\* leaf hash, the genuine audit path (leaf to root) and the genuine root,
\* recompute the genuine root and raise nothing.
C1_InclusionRoundTrip ==
    /\ (op = "verify_inclusion" /\ IsGenuineInclusion(arg))
          => (res.kind = "pass" /\ res.calc = TrueRoot(arg))
    /\ (op = "root_from_inclusion_proof" /\ IsGenuineRootCall(arg))
          => (res.kind = "pass" /\ res.calc = MTH(Prefix(log, arg.size)))

\* A genuine proof with an inner and a border part (leaf 4 of 6) has passed.
C1_Witness ==
    /\ op = "verify_inclusion"
    /\ IsGenuineInclusion(arg)
    /\ arg.logIndex = 4
    /\ arg.treeSize = 6
    /\ res.kind = "pass"

\* The decoded call differs from the genuine one of its index and size in
\* exactly one of: one proof element, the leaf hash, the root; the value put
\* there has the digest length.
IsSingleTamper(a) ==
    /\ InclDecodable(a)
    /\ InLog(a)
    /\ Len(a.hashes) = Len(TruePath(a))
    /\ \A j \in 1..Len(a.hashes) : ByteLen(fromhex(a.hashes[j])) = hasher_size
    /\ ByteLen(fromhex(a.leaf_hash)) = hasher_size
    /\ ByteLen(fromhex(a.rootHash)) = hasher_size
    /\ Cardinality({j \in 1..Len(a.hashes) : fromhex(a.hashes[j]) # TruePath(a)[j]})
         + (IF fromhex(a.leaf_hash) # TrueLeaf(a) THEN 1 ELSE 0)
         + (IF fromhex(a.rootHash) # TrueRoot(a) THEN 1 ELSE 0) = 1

\* C2: tamper sensitivity of inclusion. A genuine call in which exactly one
\* proof element, the leaf hash or the claimed root is replaced by a different
\* value of the digest length fails with RootMismatch; it never passes.
C2_TamperSensitivity ==
    (op = "verify_inclusion" /\ IsSingleTamper(arg))
        => (res.kind = "RootMismatch" /\ res.calc # res.expected)

\* A call with one border element of the proof replaced has been rejected.
C2_Witness ==
    /\ op = "verify_inclusion"
    /\ IsSingleTamper(arg)
    /\ arg.logIndex = 4
    /\ arg.treeSize = 6
    /\ fromhex(arg.hashes[2]) # TruePath(arg)[2]
    /\ res.kind = "RootMismatch"

ConsDecodable(a) == AllHex(a.proof) /\ IsHex(a.roots[1]) /\ IsHex(a.roots[2])

\* 0 < old size < new size, and the log has held a tree of the new size.
Grown(a) == 0 < a.sizes[1] /\ a.sizes[1] < a.sizes[2] /\ a.sizes[2] <= Len(log)

TrueProof(a) == ConsProof(a.sizes[1], Prefix(log, a.sizes[2]))

TrueOldRoot(a) == MTH(Prefix(log, a.sizes[1]))

TrueNewRoot(a) == MTH(Prefix(log, a.sizes[2]))

IsGenuineConsistency(a) ==
    /\ ConsDecodable(a)
    /\ Grown(a)
    /\ fromhex_all(a.proof) = TrueProof(a)
    /\ fromhex(a.roots[1]) = TrueOldRoot(a)
    /\ fromhex(a.roots[2]) = TrueNewRoot(a)

\* C3: genuine consistency proofs pass. For sizes 0 < m < n, the call with
\* sizes [m, n], the genuine RFC 6962 consistency proof, the genuine root of
\* the first m leaves and the genuine root of all n leaves raises nothing.
C3_GenuineConsistencyPasses ==
    (op = "verify_consistency" /\ IsGenuineConsistency(arg))
        => (res.kind = "pass" /\ res.matches = 2)

\* The genuine proof from 3 leaves (no power of two) to 6 has passed.
C3_Witness ==
    /\ op = "verify_consistency"
    /\ IsGenuineConsistency(arg)
    /\ arg.sizes = <<3, 6>>
    /\ res.kind = "pass"

\* C4: consistency soundness. For 0 < old size < new size, if
\* verify_consistency passes and the new root is the genuine root of the tree
\* of the new size, the old root is the genuine root of its first old-size
\* leaves, whatever the proof holds (values of the digest length, and no
\* two different inputs hashing to one value).
C4_ConsistencySoundness ==
    (/\ op = "verify_consistency"
     /\ ConsDecodable(arg)
     /\ Grown(arg)
     /\ fromhex(arg.roots[2]) = TrueNewRoot(arg)
     /\ res.kind = "pass")
        => fromhex(arg.roots[1]) = TrueOldRoot(arg)

\* A call from 3 leaves to 4 with the genuine new root has passed.
C4_Witness ==
    /\ op = "verify_consistency"
    /\ ConsDecodable(arg)
    /\ arg.sizes = <<3, 4>>
    /\ Len(log) = 4
    /\ fromhex(arg.roots[2]) = TrueNewRoot(arg)
    /\ res.kind = "pass"

\* The three checks of root_from_inclusion_proof, in the order of the claim.
IndexBad(index, size) == index >= size

LeafBad(leaf_hash) == ByteLen(leaf_hash) # hasher_size

ProofBad(index, size, proof) ==
    Len(proof) # decomp_incl_proof(index, size).inner
                   + decomp_incl_proof(index, size).border

FirstFailure(index, size, leaf_hash, proof) ==
    IF IndexBad(index, size) THEN "IndexOutOfRange"
    ELSE IF LeafBad(leaf_hash) THEN "InvalidLeafHashSize"
    ELSE IF ProofBad(index, size, proof) THEN "WrongProofSize"
    ELSE "none"

\* C5: inclusion validation order. root_from_inclusion_proof checks
\* index < size, then the leaf hash length, then the proof length against
\* inner + border; the failure reported is that of the first check violated,
\* and a call that fails one of them makes no hash_children call and no root
\* comparison.
C5_InclusionValidationOrder ==
    /\ op = "root_from_inclusion_proof" =>
          LET f == FirstFailure(arg.index, arg.size, arg.leaf_hash, arg.proof)
          IN  /\ f # "none" => res = Raise(f, res.at)
              /\ f = "none" => res.kind = "pass"
    /\ (op = "verify_inclusion" /\ InclDecodable(arg)) =>
          LET f == FirstFailure(arg.logIndex, arg.treeSize,
                                fromhex(arg.leaf_hash), fromhex_all(arg.hashes))
          IN  /\ f # "none" => res = Raise(f, res.at)
              /\ f = "none" => res.kind \in {"pass", "RootMismatch"}

\* A call violating all three checks has been rejected for its index.
C5_Witness ==
    /\ op = "root_from_inclusion_proof"
    /\ IndexBad(arg.index, arg.size)
    /\ LeafBad(arg.leaf_hash)
    /\ ProofBad(arg.index, arg.size, arg.proof)
    /\ res.kind = "IndexOutOfRange"
    /\ res.calls = 0

\* C6: size regression. verify_consistency with new size < old size fails
\* with SizeRegression for every proof, empty or not, and every pair of
\* roots, equal or not (all of them hexadecimal), before any emptiness,
\* length or root check: no hash is computed and no root compared.
C6_SizeRegression ==
    (op = "verify_consistency" /\ ConsDecodable(arg)
       /\ arg.sizes[2] < arg.sizes[1])
        => res = Raise("SizeRegression", 145)

\* A genuine call with its two sizes exchanged has been rejected.
C6_Witness ==
    /\ op = "verify_consistency"
    /\ arg.sizes[2] < arg.sizes[1]
    /\ IsGenuineConsistency(SwapSizes(arg))
    /\ res.kind = "SizeRegression"

\* C7: consistency reflexivity. With old size = new size (0 included) the
\* call passes exactly when the proof is empty and the two roots are
\* byte-equal; a proof that is not empty fails with UnexpectedProofData even
\* for equal roots, an empty proof with differing roots with RootMismatch.
C7_ConsistencyReflexivity ==
    (op = "verify_consistency" /\ ConsDecodable(arg)
       /\ arg.sizes[1] = arg.sizes[2])
        => LET same == fromhex(arg.roots[1]) = fromhex(arg.roots[2])
           IN  /\ res.kind = "pass" <=> (arg.proof = <<>> /\ same)
               /\ arg.proof # <<>> => res = Raise("UnexpectedProofData", 148)
               /\ (arg.proof = <<>> /\ ~same) => res.kind = "RootMismatch"
               /\ res.calls = 0

\* Equal sizes, an empty proof and the same root written in two cases of hex
\* digits have passed.
C7_Witness ==
    /\ op = "verify_consistency"
    /\ arg.sizes[1] = arg.sizes[2]
    /\ arg.sizes[1] > 0
    /\ arg.proof = <<>>
    /\ arg.roots[1] # arg.roots[2]
    /\ res.kind = "pass"

\* C8: proof emptiness follows the sizes. With old size 0 < new size an
\* empty proof passes whatever the roots and every other proof fails with
\* UnexpectedProofData; with 0 < old size < new size an empty proof fails
\* with EmptyProof before any decomposition or hashing.
C8_ProofEmptiness ==
    (op = "verify_consistency" /\ ConsDecodable(arg)) =>
        /\ (arg.sizes[1] = 0 /\ 0 < arg.sizes[2]) =>
              IF arg.proof = <<>>
              THEN res.kind = "pass" /\ res.calls = 0 /\ res.matches = 0
              ELSE res = Raise("UnexpectedProofData", 153)
        /\ (0 < arg.sizes[1] /\ arg.sizes[1] < arg.sizes[2]
               /\ arg.proof = <<>>) => res = Raise("EmptyProof", 158)

\* An empty old tree, an empty proof and two differing roots have passed.
C8_Witness ==
    /\ op = "verify_consistency"
    /\ arg.sizes[1] = 0
    /\ 0 < arg.sizes[2]
    /\ arg.proof = <<>>
    /\ fromhex(arg.roots[1]) # fromhex(arg.roots[2])
    /\ res.kind = "pass"

\* C9: required inclusion proof length. For 0 <= index < size, inner + border
\* of decomp_incl_proof(index, size) is the length of RFC 6962's audit path
\* of that leaf (0 for one leaf, else 1 + the length in the subtree holding
\* the leaf, split at the largest power of two below size), and it is the
\* length root_from_inclusion_proof requires of a proof.
C9_RequiredProofLength ==
    /\ (op = "decomp_incl_proof" /\ 0 <= arg.index /\ arg.index < arg.size)
          => res.inner + res.border = PathLen(arg.index, arg.size)
    /\ (op = "root_from_inclusion_proof" /\ 0 <= arg.index
           /\ arg.index < arg.size /\ ~LeafBad(arg.leaf_hash))
          => (res.kind = "WrongProofSize"
                <=> Len(arg.proof) # PathLen(arg.index, arg.size))

\* The decomposition of a path with both parts (leaf 9 of 11: inner 2,
\* border 1) has been computed.
C9_Witness ==
    /\ op = "decomp_incl_proof"
    /\ arg = [index |-> 9, size |-> 11]
    /\ res.inner > 0
    /\ res.border > 0

IsPow2(n) == \E k \in 0..n : n = 2 ^ k

\* The root of the tree of the four leaves 1, 2, 3, 4, written out.
R4 ==
    <<1, <<1, <<0, 1>>, <<0, 2>>>>, <<1, <<0, 3>>, <<0, 4>>>>>>

\* C10 as claimed: decomp_incl_proof(2, 4) is inner 2, border 0; border is 0
\* for every index < size when size is a power of two; and verify_inclusion
\* with the genuine audit path of leaf 2, of two elements, recomputes the root
\* R4 of the 4-leaf tree.
C10_AsClaimed ==
    /\ (op = "decomp_incl_proof" /\ arg = [index |-> 2, size |-> 4])
          => res = [inner |-> 2, border |-> 0]
    /\ (op = "decomp_incl_proof" /\ IsPow2(arg.size) /\ 0 <= arg.index
           /\ arg.index < arg.size) => res.border = 0
    /\ (op = "verify_inclusion" /\ IsGenuineInclusion(arg)
           /\ arg.logIndex = 2 /\ arg.treeSize = 4)
          => (Len(arg.hashes) = 2 /\ res.kind = "pass" /\ res.calc = R4)

\* C10, amended: the 4-leaf scenario. decomp_incl_proof(2, 4) is inner 1,
\* border 1 (2 xor 3 is 1, of bit length 1), two elements in all; for a size
\* that is a power of two and index < size, border is 0 exactly for the
\* indexes of the left half (index < size / 2, and index 0 of size 1); and
\* verify_inclusion with the genuine audit path of leaf 2, of two elements,
\* recomputes the root R4 of the 4-leaf tree in two hash_children calls.
C10_FourLeafScenario ==
    /\ (op = "decomp_incl_proof" /\ arg = [index |-> 2, size |-> 4])
          => res = [inner |-> 1, border |-> 1]
    /\ (op = "decomp_incl_proof" /\ IsPow2(arg.size) /\ 0 <= arg.index
           /\ arg.index < arg.size)
          => (res.border = 0 <=> 2 * arg.index < arg.size)
    /\ (op = "verify_inclusion" /\ IsGenuineInclusion(arg)
           /\ arg.logIndex = 2 /\ arg.treeSize = 4)
          => (Len(arg.hashes) = 2 /\ res.kind = "pass" /\ res.calc = R4
                /\ res.calls = 2)

\* Leaf 2 of the 4-leaf tree has been verified against R4.
C10_Witness ==
    /\ op = "verify_inclusion"
    /\ arg.logIndex = 2
    /\ arg.treeSize = 4
    /\ Len(arg.hashes) = 2
    /\ fromhex(arg.rootHash) = R4
    /\ res.kind = "pass"
    /\ res.calc = R4

\* The index is no position of a tree of that size.
IndexOutside(index, size) == ~(0 <= index /\ index < size)

\* C11: index range invariant. verify_inclusion and
\* root_from_inclusion_proof never pass and never recompute a root for an
\* index outside 0 <= index < size: every index >= size and every negative
\* index is rejected with IndexOutOfRange before any hashing, for every size
\* (0 included) and every proof.
C11_IndexRange ==
    /\ (op = "root_from_inclusion_proof"
           /\ IndexOutside(arg.index, arg.size))
          => res = Raise("IndexOutOfRange", 320)
    /\ (op = "verify_inclusion" /\ InclDecodable(arg)
           /\ IndexOutside(arg.logIndex, arg.treeSize))
          => res = Raise("IndexOutOfRange", 320)

\* What the call of thread t returns when it runs alone.
Alone(th) ==
    IF th.kind = "verify_inclusion"
    THEN verify_inclusion(th.given, th.given.leaf_hash)
    ELSE verify_consistency(th.given.sizes, th.given.proof, th.given.roots)

\* C12: statelessness under parallel use. verify_inclusion and
\* verify_consistency leave their arguments and the shared Hasher as they
\* were given, and in every interleaving of the calls of the threads that
\* share the Hasher each call ends in the result (pass or the same failure,
\* on the same values) it ends in when run alone.
C12_Stateless ==
    /\ hasher = DefaultHasher
    /\ \A t \in Threads :
        /\ thr[t].pc # "idle" => thr[t].arg = thr[t].given
        /\ thr[t].pc = "done" => thr[t].out = Alone(thr[t])

\* A consistency call has passed after two chains while another thread is
\* between the update and the digest of a hash_children call of its own.
C12_Witness ==
    \E t, u \in Threads :
        /\ t # u
        /\ thr[t].pc = "done"
        /\ thr[t].kind = "verify_consistency"
        /\ thr[t].out.kind = "pass"
        /\ thr[t].out.calls > 1
        /\ thr[u].pc = "digest"

\* The first of the six checks of --consistency that fails, "ok" for none:
\* the three options given, the two numerals all digits, the root hash of
\* 64 characters.
FirstFailingCheck(a) ==
    IF a.tree_id = NotGiven \/ StrLen(a.tree_id) = 0
    THEN "please specify tree id for prev checkpoint"
    ELSE IF a.tree_size = NotGiven \/ StrLen(a.tree_size) = 0
    THEN "please specify tree size for prev checkpoint"
    ELSE IF a.root_hash = NotGiven \/ StrLen(a.root_hash) = 0
    THEN "please specify root hash for prev checkpoint"
    ELSE IF ~(a.tree_id[1] = "dec" /\ a.tree_id[2] >= 0)
    THEN "tree id must be an integer"
    ELSE IF ~(a.tree_size[1] = "dec" /\ a.tree_size[2] >= 0)
    THEN "tree size must be an integer"
    ELSE IF StrLen(a.root_hash) # 64
    THEN "root hash must be 64 characters long"
    ELSE "ok"

\* C13: validation of the options of --consistency. main checks, in this
\* order, that the tree id, the tree size and the root hash are given (an
\* empty string counts as not given), that the tree id and the tree size
\* are all digits and that the root hash has
\* 64 characters; it prints the message of the first check that fails, and
\* nothing else, and returns without calling consistency() and without a
\* request; consistency() is called exactly when the six checks hold.
C13_ConsistencyValidation ==
    op = "main" =>
        LET f == FirstFailingCheck(arg.args)
        IN  /\ f # "ok" => /\ res.out = <<Line(f, "")>>
                           /\ res.called = <<>>
                           /\ res.requests = 0
                           /\ res.raised = "none"
            /\ f = "ok" <=> res.called = <<"consistency">>

\* A tree id that is given but no numeral, with no tree size at all: the
\* missing tree size is what main has reported.
C13_Witness ==
    /\ op = "main"
    /\ arg.args.tree_id = Letters(2)
    /\ arg.args.tree_size = NotGiven
    /\ res.out = <<Line("please specify tree size for prev checkpoint", "")>>
    /\ res.called = <<>>

\* The request came to a JSON body that is not the error object of code 609.
EntryFetched(resp) ==
    /\ resp.net = "ok"
    /\ resp.json
    /\ ~("code" \in DOMAIN resp.content /\ resp.content.code = 609)

\* The lines of out that report how the command ended.
Verdicts(out, texts) == {j \in 1..Len(out) : out[j].text \in texts}

\* C14: outcome reporting of the inclusion command. For a log entry that
\* was fetched (and a proof request that was answered, when one was made),
\* inclusion() prints 'Verified inclusion' only when the body decoding, the
\* signature verification and verify_inclusion have all completed without
\* raising; every failure raised by one of these steps (a missing artifact
\* file, a malformed entry, a wrong proof size, an index out of range, a
\* root mismatch) is reported by the one line 'Failed to verify inclusion of
\* log index ...' and does not escape inclusion().
C14_InclusionReporting ==
    (/\ op = "inclusion"
     /\ EntryFetched(arg.env.entry)
     /\ (arg.env.proof = Unasked \/ EntryFetched(arg.env.proof)))
        => /\ res.raised = "none"
           /\ Cardinality(Verdicts(res.out,
                  {"Verified inclusion",
                   "Failed to verify inclusion of log index"})) = 1
           /\ Verdicts(res.out, {"Verified inclusion"}) # {}
                 <=> res.verify.kind = "pass"

\* Something went wrong with the request: the HTTP call raised before a
\* response existed (a connection error, a timeout), or the body of the
\* response is no JSON.
WentWrong(resp) == resp.net = "raise" \/ ~resp.json

\* The helper has returned None.
ReturnedNone(r) == r.raised = "none" /\ r.ret.none

\* C15: the fetch helpers fail soft. get_log_entry and get_latest_checkpoint
\* return None, and raise nothing, whenever something goes wrong with the
\* request; get_log_entry also returns None for the error object of code
\* 609; and get_verification_proof returns None whenever get_log_entry does.
C15_FetchFailSoft ==
    /\ (op \in {"get_log_entry", "get_latest_checkpoint"}
           /\ WentWrong(arg.resp)) => ReturnedNone(res)
    /\ (op = "get_log_entry" /\ ~WentWrong(arg.resp)
           /\ "code" \in DOMAIN arg.resp.content
           /\ arg.resp.content.code = 609) => ReturnedNone(res)
    /\ (op = "get_verification_proof"
           /\ ReturnedNone(get_log_entry(arg.resp,
                  arg.json_error_is_request_exception)))
          => ReturnedNone(res)

\* The previous checkpoint of the command line is a tree the log has held,
\* older than the latest, with its root; the latest checkpoint is fetched
\* and the proof request is answered with the genuine proof between the two.
GenuineOlderCheckpoint(a) ==
    /\ a.args.tree_size[1] = "dec"
    /\ a.args.tree_size[2] \in 1..(Len(log) - 1)
    /\ a.args.root_hash = ToHex(MTH(Prefix(log, a.args.tree_size[2])))
    /\ a.env.checkpoint = Resp("ok", "ok", TRUE, Checkpoint(log))
    /\ a.env.proof = Resp("ok", "ok", TRUE,
                          ServerProof(a.args.tree_size[2], Len(log), log))

\* C16: outcome reporting of the consistency command. For a previous
\* checkpoint accepted by the checks of main, consistency() ends by printing
\* exactly one of 'Verified consistency' (only when verify_consistency has
\* returned without raising) and 'Failed to verify consistency proof from
\* Rekor Server public instance: ...'; no failure of fetching the latest
\* checkpoint, fetching the proof or verifying it escapes as an unhandled
\* exception; and a genuine proof for a genuinely older checkpoint ends in
\* 'Verified consistency'.
C16_ConsistencyReporting ==
    (op = "main" /\ res.called = <<"consistency">>)
        => /\ res.raised = "none"
           /\ Cardinality(Verdicts(res.out,
                  {"Verified consistency",
                   "Failed to verify consistency proof from Rekor Server public instance: "})) = 1
           /\ Verdicts(res.out, {"Verified consistency"}) # {}
                 => res.verify.kind = "pass"
           /\ GenuineOlderCheckpoint(arg)
                 => Verdicts(res.out, {"Verified consistency"}) # {}

\* The index of the lowest set bit of n (n > 0).
LowBit(n) == CHOOSE k \in 0..n : n % (2 ^ k) = 0 /\ n % (2 ^ (k + 1)) # 0

RECURSIVE SubproofLen(_, _, _)
\* The length of RFC 6962's SUBPROOF(m, D[n], b).
SubproofLen(m, n, b) ==
    IF m = n THEN (IF b THEN 0 ELSE 1)
    ELSE LET k == Pow2Below(n)
         IN  IF m <= k THEN SubproofLen(m, k, b) + 1
             ELSE SubproofLen(m - k, n - k, FALSE) + 1

\* start + inner + border for the sizes old < new, from the decomposition
\* d of (old - 1, new).
RequiredLen(old, d) ==
    (IF IsPow2(old) THEN 0 ELSE 1) + (d.inner - LowBit(old)) + d.border

\* C17: consistency proof length check. For 0 < old size < new size and a
\* proof that is not empty, with (inner, border) the decomposition of
\* (old size - 1, new size), shift the index of the lowest set bit of the
\* old size, inner reduced by shift and start 0 for an old size that is a
\* power of two, else 1: verify_consistency fails with WrongProofSize
\* exactly when the proof has not start + inner + border elements, before
\* any hash_children call or root comparison; and start + inner + border is
\* the length of the genuine RFC 6962 consistency proof between the sizes.
C17_ConsistencyProofLength ==
    /\ (op = "verify_consistency" /\ ConsDecodable(arg)
           /\ 0 < arg.sizes[1] /\ arg.sizes[1] < arg.sizes[2]
           /\ arg.proof # <<>>)
          => LET need == RequiredLen(arg.sizes[1],
                           decomp_incl_proof(arg.sizes[1] - 1, arg.sizes[2]))
             IN  /\ res.kind = "WrongProofSize" <=> Len(arg.proof) # need
                 /\ Len(arg.proof) # need => res = Raise("WrongProofSize", 170)
                 /\ need = SubproofLen(arg.sizes[1], arg.sizes[2], TRUE)
    /\ (op = "verify_consistency" /\ IsGenuineConsistency(arg))
          => Len(arg.proof) = SubproofLen(arg.sizes[1], arg.sizes[2], TRUE)
    /\ (op = "decomp_incl_proof" /\ 0 <= arg.index
           /\ arg.index + 1 < arg.size)
          => RequiredLen(arg.index + 1, res)
               = SubproofLen(arg.index + 1, arg.size, TRUE)

\* A proof from 4 leaves (a power of two) to 7, one element longer than the
\* two required, has been rejected for its length.
C17_Witness ==
    /\ op = "verify_consistency"
    /\ ConsDecodable(arg)
    /\ arg.sizes = <<4, 7>>
    /\ Len(arg.proof) = 3
    /\ res = Raise("WrongProofSize", 170)

RECURSIVE FoldInner(_, _, _, _)
\* The seed joined with the elements in turn: element i on the left where
\* bit i of index is 1; elsewhere on the right, or for the inner-right rule
\* not at all.
FoldInner(seed, elems, index, right_only) ==
    IF elems = <<>> THEN seed
    ELSE LET n == Len(elems)
             s == FoldInner(seed, SubSeq(elems, 1, n - 1), index, right_only)
         IN  IF (index \div (2 ^ (n - 1))) % 2 = 1 THEN <<1, elems[n], s>>
             ELSE IF right_only THEN s
             ELSE <<1, s, elems[n]>>

RECURSIVE FoldBorder(_, _)
\* The seed joined with every element on the left.
FoldBorder(seed, elems) ==
    IF elems = <<>> THEN seed
    ELSE <<1, elems[Len(elems)],
           FoldBorder(seed, SubSeq(elems, 1, Len(elems) - 1))>>

\* The two roots the chains of a call come to: old by the inner-right rule,
\* new by the full inner rule, both followed by the border elements.
DualChain(a) ==
    LET old   == a.sizes[1]
        d     == decomp_incl_proof(old - 1, a.sizes[2])
        proof == fromhex_all(a.proof)
        start == IF IsPow2(old) THEN 0 ELSE 1
        seed  == IF IsPow2(old) THEN fromhex(a.roots[1]) ELSE proof[1]
        inner == d.inner - LowBit(old)
        ins   == SubSeq(proof, start + 1, start + inner)
        bor   == SubSeq(proof, start + inner + 1, Len(proof))
        index == (old - 1) \div (2 ^ LowBit(old))
    IN  [old |-> FoldBorder(FoldInner(seed, ins, index, TRUE), bor),
         new |-> FoldBorder(FoldInner(seed, ins, index, FALSE), bor)]

\* The call has 0 < old size < new size and a proof of the required length.
RequiredLength(a) ==
    /\ ConsDecodable(a)
    /\ 0 < a.sizes[1]
    /\ a.sizes[1] < a.sizes[2]
    /\ a.proof # <<>>
    /\ Len(a.proof) = RequiredLen(a.sizes[1],
                          decomp_incl_proof(a.sizes[1] - 1, a.sizes[2]))

\* C18: dual chain, all or nothing. For 0 < old size < new size and a proof
\* of the required length, verify_consistency passes if and only if the
\* seed chained through the inner elements by the inner-right rule and then
\* the border elements is the old root, and the same seed chained through
\* the same elements by the full inner rule and then the border elements is
\* the new root; the old root is compared first, so when both differ the
\* RootMismatch raised is that of the old root; a failure of either chain
\* never gives a pass.
C18_DualChain ==
    (op = "verify_consistency" /\ RequiredLength(arg)) =>
        LET c    == DualChain(arg)
            oldR == fromhex(arg.roots[1])
            newR == fromhex(arg.roots[2])
        IN  /\ res.kind = "pass" <=> (c.old = oldR /\ c.new = newR)
            /\ c.old # oldR =>
                  /\ res.kind = "RootMismatch"
                  /\ res.matches = 1
                  /\ res.calc = c.old
                  /\ res.expected = oldR
            /\ (c.old = oldR /\ c.new # newR) =>
                  /\ res.kind = "RootMismatch"
                  /\ res.matches = 2
                  /\ res.calc = c.new
                  /\ res.expected = newR

\* A call from 3 leaves to 4 in which both chains miss their roots has been
\* rejected for the old root.
C18_Witness ==
    /\ op = "verify_consistency"
    /\ RequiredLength(arg)
    /\ arg.sizes = <<3, 4>>
    /\ DualChain(arg).old # fromhex(arg.roots[1])
    /\ DualChain(arg).new # fromhex(arg.roots[2])
    /\ res.kind = "RootMismatch"
    /\ res.expected = fromhex(arg.roots[1])

\* The hashes of the first two leaves and the root of their tree, written
\* out.
LeafHash0 == <<0, 1>>

LeafHash1 == <<0, 2>>

R2 == <<1, <<0, 1>>, <<0, 2>>>>

\* C19: an old size that is a power of two. With the old size a power of
\* two and smaller than the new size, the seed is the old root, the proof
\* is consumed from its first element, border is 0 and the old-root branch
\* hashes nothing, so the first comparison never misses; the call passes
\* exactly when the proof has the required length and the whole proof
\* chained from the old root by the full inner rule is the new root. For
\* old size 1, new size 2 and the proof [hash_leaf(L1)], the old root being
\* hash_leaf(L0), the call passes exactly when the new root is
\* hash_children(hash_leaf(L0), hash_leaf(L1)).
C19_PowerOfTwoOldSize ==
    (op = "verify_consistency" /\ ConsDecodable(arg)
       /\ 0 < arg.sizes[1] /\ IsPow2(arg.sizes[1])
       /\ arg.sizes[1] < arg.sizes[2]) =>
        LET old   == arg.sizes[1]
            d     == decomp_incl_proof(old - 1, arg.sizes[2])
            proof == fromhex_all(arg.proof)
            oldR  == fromhex(arg.roots[1])
            newR  == fromhex(arg.roots[2])
            whole == FoldInner(oldR, proof, (old - 1) \div old, FALSE)
        IN  /\ d.border = 0
            /\ ~(res.kind = "RootMismatch" /\ res.matches = 1)
            /\ res.kind = "pass" <=>
                  (Len(proof) = d.inner - LowBit(old) /\ whole = newR)
            /\ res.kind \in {"pass", "RootMismatch"} =>
                  (res.calls = Len(proof) /\ res.calc = whole)
            /\ (arg.sizes = <<1, 2>> /\ proof = <<LeafHash1>>
                  /\ oldR = LeafHash0)
                  => (res.kind = "pass" <=> newR = R2)

\* The step from one leaf to two has passed with the root R2.
C19_Witness ==
    /\ op = "verify_consistency"
    /\ arg.sizes = <<1, 2>>
    /\ fromhex_all(arg.proof) = <<LeafHash1>>
    /\ fromhex(arg.roots[1]) = LeafHash0
    /\ fromhex(arg.roots[2]) = R2
    /\ res.kind = "pass"
    /\ res.calls = 1

\* C20: the shift adjustment stays positive. For every 0 < old size <
\* new size, inner_proof_size(old size - 1, new size) is greater than shift,
\* the index of the lowest set bit of the old size; so after inner -= shift
\* the inner count is at least 1, the slices proof[:inner] and proof[inner:]
\* have no negative bound, and the required length start + inner + border
\* is at least 1: an empty proof never has the required length.
C20_ShiftStaysPositive ==
    /\ (op = "decomp_incl_proof" /\ 0 <= arg.index
           /\ arg.index + 1 < arg.size)
          => /\ res.inner = inner_proof_size(arg.index, arg.size)
             /\ res.inner > LowBit(arg.index + 1)
             /\ res.inner - lowest_set_bit(arg.index + 1) >= 1
             /\ RequiredLen(arg.index + 1, res) >= 1
    /\ (op = "verify_consistency" /\ ConsDecodable(arg)
           /\ 0 < arg.sizes[1] /\ arg.sizes[1] < arg.sizes[2])
          => LET inner == inner_proof_size(arg.sizes[1] - 1, arg.sizes[2])
                            - lowest_set_bit(arg.sizes[1])
             IN  /\ inner >= 1
                 /\ SliceBound(Len(arg.proof), inner)
                       = Min(inner, Len(arg.proof))
                 /\ arg.proof = <<>> => res = Raise("EmptyProof", 158)
                 /\ res.kind \in {"pass", "RootMismatch"} => Len(arg.proof) >= 1

\* The decomposition for the sizes 8 and 9 (shift 3, inner 4) has been
\* computed.
C20_Witness ==
    /\ op = "decomp_incl_proof"
    /\ arg = [index |-> 7, size |-> 9]
    /\ res.inner = 4
    /\ LowBit(8) = 3

=============================================================================
